---- MODULE Spec2Model ----
(***************************************************************************)
(* Model of src/app.py: the year-over-year price dashboard.                *)
(*                                                                         *)
(* State: the module-level data frame df (loaded once by load_data), the   *)
(* arguments of the last update_charts call and the four values that call  *)
(* returned.  update_charts is the only callback of the app; it runs when  *)
(* the page loads and whenever one of its two inputs changes.              *)
(*                                                                         *)
(* The heap of a call holds two frames, "df" (the module-level one) and    *)
(* "filtered_df" (the copy of line 112), so that a write through one name  *)
(* is seen, or not seen, through the other as in the program.  The         *)
(* aggregations of a frame without rows yield a frame without rows.        *)
(*                                                                         *)
(* Numbers.  A Price is an integer number of mills (0.001 currency units), *)
(* so that .round(2) is not the identity on prices.  An exact statistic is *)
(* a quotient num/den of integers; every rounded statistic is an integer   *)
(* number of cents, every rounded percentage an integer number of          *)
(* hundredths of a percent.  A float cell is [k |-> "num", v |-> n], NaN   *)
(* is [k |-> "nan"], +infinity is [k |-> "inf"].  .round(2) is modelled as *)
(* round-half-to-even on the exact quotient (numpy's rule).                *)
(***************************************************************************)
EXTENDS Integers, Sequences, FiniteSets, TLC

VARIABLES
    df,               \* the module-level frame
    loaded,           \* what load_data returned (never written after Init)
    called,           \* whether update_charts has been called
    selected_years,   \* the arguments of the last call
    comparison_type,
    out,              \* what the last call returned
    main_data,        \* the aggregated frame the last call's main chart was built from
    invoked           \* the functions the last call invoked

vars == <<df, loaded, called, selected_years, comparison_type, out, main_data, invoked>>

(***************************************************************************)
(* Bounds and input sets.                                                  *)
(***************************************************************************)
\* Largest number of rows of a small data set.
MaxObs == 3

\* Number of years of the wide data set (one row per year); more than the
\* palette has colours, so that the palette index wraps.
NumWideYears == 10

\* Prices of the input data sets, in mills.
Prices == {0, 1026}

\* Dates of the small data sets: <<year, month, day>>.
DateSet ==
    { <<2020, 1, 1>>, <<2020, 1, 3>>, <<2020, 3, 1>>,
      <<2021, 1, 1>>, <<2022, 7, 4>> }

\* A year that a caller may select although no data set has a row of it.
AbsentYears == {2019}

WideYears == { 2000 + k : k \in 1..NumWideYears }

\* Price of the wide data set's row of year y.
WidePrice(y) == <<0, 1026, 1026, 2052>>[(y % 4) + 1]

\* comparison_type values: the four options of the dropdown, and the value
\* of a cleared dropdown (None).
ComparisonTypes == {"overlay", "monthly", "quarterly", "weekly", "None"}

(***************************************************************************)
(* Numbers.                                                                *)
(***************************************************************************)
Num(n) == [k |-> "num", v |-> n]
NaN == [k |-> "nan", v |-> 0]
Inf == [k |-> "inf", v |-> 0]

notna(x) == x.k # "nan"

\* num/den (den > 0) rounded to the nearest integer, ties to even.
RoundDiv(num, den) ==
    LET q == num \div den
        r == num % den
    IN  IF 2 * r < den THEN q
        ELSE IF 2 * r > den THEN q + 1
        ELSE IF q % 2 = 0 THEN q ELSE q + 1

\* .round(2) of num/den mills: cents.
Round2(num, den) == RoundDiv(num, den * 10)

(***************************************************************************)
(* Calendar fields of a date, as pandas' .dt accessors compute them.       *)
(***************************************************************************)
IsLeap(y) == (y % 4 = 0 /\ y % 100 # 0) \/ y % 400 = 0

dayofyear(date) ==
    LET before == <<0, 31, 59, 90, 120, 151, 181, 212, 243, 273, 304, 334>>
    IN  before[date[2]] + date[3] + (IF IsLeap(date[1]) /\ date[2] > 2 THEN 1 ELSE 0)

\* ISO weekday, 1 = Monday .. 7 = Sunday.
isoweekday(date) ==
    LET p == date[1] - 1
        ord == 365 * p + (p \div 4) - (p \div 100) + (p \div 400) + dayofyear(date)
    IN  ((ord + 6) % 7) + 1

\* Number of ISO weeks of year y.
WeeksInYear(y) ==
    LET jan1 == isoweekday(<<y, 1, 1>>)
    IN  IF jan1 = 4 \/ (IsLeap(y) /\ jan1 = 3) THEN 53 ELSE 52

\* .dt.isocalendar().week
isoweek(date) ==
    LET w == (dayofyear(date) - isoweekday(date) + 10) \div 7
    IN  IF w < 1 THEN WeeksInYear(date[1] - 1)
        ELSE IF w > WeeksInYear(date[1]) THEN 1
        ELSE w

\* .dt.quarter
quarter(date) == ((date[2] - 1) \div 3) + 1

month_name(date) ==
    << "January", "February", "March", "April", "May", "June", "July",
       "August", "September", "October", "November", "December" >>[date[2]]

(***************************************************************************)
(* load_data: one row per observation, with the derived columns.           *)
(***************************************************************************)
LoadedColumns ==
    {"Date", "Price", "Year", "Month", "Day", "DayOfYear", "MonthName",
     "WeekOfYear", "MonthDay"}

LoadRow(date, price) ==
    [ Date |-> date, Price |-> price, Year |-> date[1], Month |-> date[2],
      Day |-> date[3], DayOfYear |-> dayofyear(date),
      MonthName |-> month_name(date), WeekOfYear |-> isoweek(date),
      MonthDay |-> <<date[2], date[3]>>, Quarter |-> 0 ]

\* A frame: its columns and its rows.  The Quarter field of a row is read
\* only when "Quarter" is a column.
load_data(csv) ==
    [ columns |-> LoadedColumns,
      rows |-> { LoadRow(o[1], o[2]) : o \in csv } ]

\* The CSV files: every non-empty set of at most MaxObs observations with
\* distinct dates, and the wide file.
SmallCsvs ==
    UNION { [ D -> Prices ] : D \in { S \in SUBSET DateSet : S # {} /\ Cardinality(S) <= MaxObs } }

CsvOf(f) == { <<d, f[d]>> : d \in DOMAIN f }

WideCsv == { << <<y, 1, 15>>, WidePrice(y) >> : y \in WideYears }

Csvs == { CsvOf(f) : f \in SmallCsvs } \cup { WideCsv }

YearsOf(frame) == { r.Year : r \in frame.rows }

\* available_years, as a set.
available_years == YearsOf(df)

(***************************************************************************)
(* Sequences and groups.                                                   *)
(***************************************************************************)
RECURSIVE sorted(_)
\* sorted(S): the integers of S in ascending order.
sorted(S) ==
    IF S = {} THEN <<>>
    ELSE LET m == CHOOSE a \in S : \A b \in S : a <= b
         IN  <<m>> \o sorted(S \ {m})

RECURSIVE SumSeq(_)
SumSeq(s) == IF s = <<>> THEN 0 ELSE Head(s) + SumSeq(Tail(s))

RECURSIVE SumSqSeq(_)
SumSqSeq(s) == IF s = <<>> THEN 0 ELSE Head(s) * Head(s) + SumSqSeq(Tail(s))

RECURSIVE PriceSeq(_)
\* The prices of a set of rows in ascending order, one per row.
PriceSeq(g) ==
    IF g = {} THEN <<>>
    ELSE LET r == CHOOSE a \in g : \A b \in g : a.Price <= b.Price
         IN  <<r.Price>> \o PriceSeq(g \ {r})

\* A faulty variant of GroupBy: one group per row.
GroupByRow(rows, cols) == { {r} : r \in rows }

\* df.groupby(cols): the rows partitioned by their values in the columns.
GroupBy(rows, cols) ==
    { { r \in rows : \A i \in 1..Len(cols) : r[cols[i]] = k[cols[i]] } : k \in rows }

GroupYear(g) == (CHOOSE r \in g : TRUE).Year
GroupKey(g, col) == (CHOOSE r \in g : TRUE)[col]

(***************************************************************************)
(* The aggregations of a group, each followed by .round(2).                *)
(***************************************************************************)
agg_count(g) == Cardinality(g)

agg_mean(g) == Num(Round2(SumSeq(PriceSeq(g)), Cardinality(g)))

agg_min(g) == Num(Round2(PriceSeq(g)[1], 1))

agg_max(g) == Num(Round2(PriceSeq(g)[Cardinality(g)], 1))

\* The median of the ascending prices s.
MedianOf(s) ==
    IF Len(s) % 2 = 1 THEN Num(Round2(s[(Len(s) + 1) \div 2], 1))
    ELSE Num(Round2(s[Len(s) \div 2] + s[(Len(s) \div 2) + 1], 2))

agg_median(g) == MedianOf(PriceSeq(g))

\* sqrt(d/m) mills rounded to cents (ties to even), m > 0, d >= 0, the
\* result known to be at most hi.
RoundSqrt(d, m, hi) ==
    LET edge(c) == (10 * c + 5) * (10 * c + 5) * m
    IN  CHOOSE c \in 0..hi :
            /\ \/ c = 0
               \/ edge(c - 1) < d
               \/ edge(c - 1) = d /\ c % 2 = 0
            /\ \/ d < edge(c)
               \/ d = edge(c) /\ c % 2 = 0

\* The standard deviation of the ascending prices s with divisor n - ddof.
StdOf(s, ddof) ==
    IF Len(s) - ddof < 1 THEN NaN
    ELSE Num(RoundSqrt(Len(s) * SumSqSeq(s) - SumSeq(s) * SumSeq(s),
                       Len(s) * (Len(s) - ddof),
                       ((s[Len(s)] - s[1]) \div 10) + 1))

\* A faulty variant of agg_std: the population standard deviation (ddof = 0),
\* which is 0 for a single row.
agg_std_pop(g) == StdOf(PriceSeq(g), 0)

\* The sample standard deviation (ddof = 1): NaN for fewer than 2 rows.
agg_std(g) == StdOf(PriceSeq(g), 1)

\* (max - min) / mean * 100 of the ascending prices s, in hundredths of a
\* percent; 0/0 is NaN.
RangePercentOf(s) ==
    IF SumSeq(s) = 0 THEN NaN
    ELSE Num(RoundDiv((s[Len(s)] - s[1]) * Len(s) * 10000, SumSeq(s)))

\* lambda x: (x.max() - x.min()) / x.mean() * 100
agg_range_percent(g) == RangePercentOf(PriceSeq(g))

RECURSIVE OrderRows(_)
\* The rows of an aggregated frame in the order of groupby's sorted keys.
OrderRows(S) ==
    IF S = {} THEN <<>>
    ELSE LET r == CHOOSE a \in S : \A b \in S :
                      \/ a.Year < b.Year
                      \/ a.Year = b.Year /\ a.Key <= b.Key
         IN  <<r>> \o OrderRows(S \ {r})

\* frame[frame['Year'] == year] of an ordered aggregated frame.
YearRows(rows, year) == SelectSeq(rows, LAMBDA r : r.Year = year)

Column(rows, col) == [ i \in 1..Len(rows) |-> rows[i][col] ]

Reverse(s) == [ i \in 1..Len(s) |-> s[Len(s) + 1 - i] ]

\* sorted(data['Year'].unique()) of an aggregated frame.
YearsIn(rows) == sorted({ rows[j].Year : j \in 1..Len(rows) })

(***************************************************************************)
(* Colours and traces.                                                     *)
(***************************************************************************)
Rgb(c) == [fn |-> "rgb", rgb |-> c, a |-> ""]
Named(n) == [fn |-> n, rgb |-> <<>>, a |-> ""]
NoColor == Named("")

\* px.colors.qualitative.Set1
colors ==
    << Rgb(<<228, 26, 28>>), Rgb(<<55, 126, 184>>), Rgb(<<77, 175, 74>>),
       Rgb(<<152, 78, 163>>), Rgb(<<255, 127, 0>>), Rgb(<<255, 255, 51>>),
       Rgb(<<166, 86, 40>>), Rgb(<<247, 129, 191>>), Rgb(<<153, 153, 153>>) >>

\* A faulty variant of ColorOf: the palette index is off by one.
ColorOfNext(i) == colors[((i + 1) % Len(colors)) + 1]

\* colors[i % len(colors)], i counted from 0.
ColorOf(i) == colors[(i % Len(colors)) + 1]

\* c.replace('rgb', 'rgba').replace(')', ', 0.2)')
FillColorOf(c) == [fn |-> "rgba", rgb |-> c.rgb, a |-> "0.2"]

Raw(p) == [k |-> "raw", v |-> p]

Trace(type, year, label, x, y, mode, color, width) ==
    [ type |-> type, year |-> year, label |-> label, x |-> x, y |-> y,
      mode |-> mode, color |-> color, width |-> width,
      error_y |-> <<>>, fill |-> "", fillcolor |-> NoColor, yaxis |-> "y" ]

Figure(data, title, annotations) ==
    [ kind |-> "Figure", data |-> data, title |-> title,
      annotations |-> annotations ]

(***************************************************************************)
(* The chart builders.  Each takes the frame it is called with.            *)
(***************************************************************************)
\* The overlay trace of the rows year_data, whose days of the year ascend
\* in xs.
OverlaySeries(year_data, xs, year, i) ==
    Trace("scatter", year, "", xs,
          [ j \in 1..Len(xs) |->
              Raw((CHOOSE r \in year_data : r.DayOfYear = xs[j]).Price) ],
          "lines", ColorOf(i), 2)

\* year_data.sort_values('DayOfYear') and its trace.
OverlayTrace(year_data, year, i) ==
    OverlaySeries(year_data, sorted({ r.DayOfYear : r \in year_data }), year, i)

OverlayTraces(frame, years) ==
    [ j \in 1..Len(years) |->
        OverlayTrace({ r \in frame.rows : r.Year = years[j] }, years[j], j - 1) ]

create_overlay_chart(frame) ==
    Figure(OverlayTraces(frame, sorted(YearsOf(frame))),
           "Year-over-Year Price Comparison (Overlay by Day of Year)", <<>>)

\* An aggregated frame is the sequence of its rows; Key is the bucket column.
monthly_data_of(frame) ==
    OrderRows({ [ Year |-> GroupYear(g), Key |-> GroupKey(g, "Month"),
                  AvgPrice |-> agg_mean(g), MinPrice |-> NaN, MaxPrice |-> NaN,
                  StdPrice |-> agg_std(g) ] :
                g \in GroupBy(frame.rows, <<"Year", "Month">>) })

MonthlyTrace(year_data, year, i) ==
    [ Trace("scatter", year, "", Column(year_data, "Key"),
            Column(year_data, "AvgPrice"), "lines+markers", ColorOf(i), 3)
      EXCEPT !.error_y = Column(year_data, "StdPrice") ]

\* for i, year in enumerate(years): the trace of the year's rows.
MonthlyTraces(monthly_data, years) ==
    [ j \in 1..Len(years) |->
        MonthlyTrace(YearRows(monthly_data, years[j]), years[j], j - 1) ]

MonthlyFigure(monthly_data) ==
    Figure(MonthlyTraces(monthly_data, YearsIn(monthly_data)),
           "Monthly Average Price Comparison", <<>>)

create_monthly_chart(frame) == MonthlyFigure(monthly_data_of(frame))

\* df['Quarter'] = df['Date'].dt.quarter: the frame, in place.
AddQuarter(frame) ==
    [ columns |-> frame.columns \cup {"Quarter"},
      rows |-> { [ r EXCEPT !.Quarter = quarter(r.Date) ] : r \in frame.rows } ]

\* A faulty variant of QuarterFrame: the body's df names the module-level frame.
QuarterFrameGlobal(param) == "df"

\* The frame that the name df denotes in the body of create_quarterly_chart:
\* its parameter, which shadows the module-level df.
QuarterFrame(param) == param

quarterly_data_of(frame) ==
    OrderRows({ [ Year |-> GroupYear(g), Key |-> GroupKey(g, "Quarter"),
                  AvgPrice |-> agg_mean(g), MinPrice |-> agg_min(g),
                  MaxPrice |-> agg_max(g), StdPrice |-> agg_std(g) ] :
                g \in GroupBy(frame.rows, <<"Year", "Quarter">>) })

QuarterlyAvg(year_data, year, i) ==
    Trace("scatter", year, "Avg", Column(year_data, "Key"),
          Column(year_data, "AvgPrice"), "lines+markers", ColorOf(i), 3)

QuarterlyRange(year_data, year, i) ==
    [ Trace("scatter", year, "Range",
            Column(year_data, "Key") \o Reverse(Column(year_data, "Key")),
            Column(year_data, "MaxPrice") \o Reverse(Column(year_data, "MinPrice")),
            "", [fn |-> "rgba", rgb |-> <<255, 255, 255>>, a |-> "0"], 0)
      EXCEPT !.fill = IF i > 0 THEN "tonexty" ELSE "tozeroy",
             !.fillcolor = FillColorOf(ColorOf(i)) ]

\* for i, year in enumerate(years): the two traces of the year's rows, the
\* average line before the range band.
QuarterlyTraces(quarterly_data, years) ==
    [ j \in 1..(2 * Len(years)) |->
        IF j % 2 = 1
        THEN QuarterlyAvg(YearRows(quarterly_data, years[(j + 1) \div 2]),
                          years[(j + 1) \div 2], ((j + 1) \div 2) - 1)
        ELSE QuarterlyRange(YearRows(quarterly_data, years[j \div 2]),
                            years[j \div 2], (j \div 2) - 1) ]

QuarterlyFigure(quarterly_data) ==
    Figure(QuarterlyTraces(quarterly_data, YearsIn(quarterly_data)),
           "Quarterly Price Comparison (Average with Min/Max Range)", <<>>)

\* The heap after the Quarter column is assigned to the frame at ref.
AssignQuarter(heap, ref) == [ heap EXCEPT ![ref] = AddQuarter(heap[ref]) ]

\* What create_quarterly_chart leaves: the heap, its aggregated frame and its figure.
QuarterlyResult(heap, quarterly_data) ==
    [ heap |-> heap, data |-> quarterly_data, fig |-> QuarterlyFigure(quarterly_data) ]

QuarterlyOn(heap, ref) == QuarterlyResult(heap, quarterly_data_of(heap[ref]))

\* create_quarterly_chart called with the frame at param of the heap.
create_quarterly_chart(heap, param) ==
    QuarterlyOn(AssignQuarter(heap, QuarterFrame(param)), QuarterFrame(param))

weekly_data_of(frame) ==
    OrderRows({ [ Year |-> GroupYear(g), Key |-> GroupKey(g, "WeekOfYear"),
                  AvgPrice |-> agg_mean(g), MinPrice |-> NaN, MaxPrice |-> NaN,
                  StdPrice |-> NaN ] :
                g \in GroupBy(frame.rows, <<"Year", "WeekOfYear">>) })

WeeklyTrace(year_data, year, i) ==
    Trace("scatter", year, "", Column(year_data, "Key"),
          Column(year_data, "AvgPrice"), "lines", ColorOf(i), 2)

\* for i, year in enumerate(years): the trace of the year's rows.
WeeklyTraces(weekly_data, years) ==
    [ j \in 1..Len(years) |->
        WeeklyTrace(YearRows(weekly_data, years[j]), years[j], j - 1) ]

WeeklyFigure(weekly_data) ==
    Figure(WeeklyTraces(weekly_data, YearsIn(weekly_data)),
           "Weekly Average Price Patterns", <<>>)

create_weekly_chart(frame) == WeeklyFigure(weekly_data_of(frame))

StatsFigure(stats) ==
    Figure(<< Trace("bar", 0, "Mean", Column(stats, "Year"),
                    Column(stats, "Mean"), "", Named("lightblue"), 0),
              Trace("bar", 0, "Median", Column(stats, "Year"),
                    Column(stats, "Median"), "", Named("lightgreen"), 0) >>,
           "Annual Price Statistics Comparison", <<>>)

create_summary_stats_chart(frame) ==
    StatsFigure(OrderRows({ [ Year |-> GroupYear(g), Key |-> 0, Mean |-> agg_mean(g),
                              Median |-> agg_median(g), Min |-> agg_min(g),
                              Max |-> agg_max(g) ] :
                            g \in GroupBy(frame.rows, <<"Year">>) }))

VolatilityFigure(volatility) ==
    Figure(<< Trace("bar", 0, "Standard Deviation", Column(volatility, "Year"),
                    Column(volatility, "StdDev"), "", Named("coral"), 0),
              [ Trace("scatter", 0, "Range as % of Mean", Column(volatility, "Year"),
                      Column(volatility, "RangePercent"), "lines+markers",
                      Named("darkred"), 3)
                EXCEPT !.yaxis = "y2" ] >>,
           "Price Volatility Comparison", <<>>)

create_volatility_chart(frame) ==
    VolatilityFigure(OrderRows({ [ Year |-> GroupYear(g), Key |-> 0,
                                   StdDev |-> agg_std(g),
                                   RangePercent |-> agg_range_percent(g) ] :
                                 g \in GroupBy(frame.rows, <<"Year">>) }))

(***************************************************************************)
(* The summary table.                                                      *)
(***************************************************************************)
\* A faulty variant of pct_change: the change is taken relative to the later value.
pct_change_reversed(prev, cur) ==
    IF cur.v = 0 THEN (IF prev.v = 0 THEN NaN ELSE Inf)
    ELSE Num(RoundDiv((cur.v - prev.v) * 10000, cur.v))

\* One step of summary['Mean'].pct_change() * 100, then .round(2): from the
\* rounded means prev and cur (cents) to hundredths of a percent.  Division
\* by zero is float division: x/0 is inf for x > 0, and 0/0 is NaN.
pct_change(prev, cur) ==
    IF prev.v = 0 THEN (IF cur.v = 0 THEN NaN ELSE Inf)
    ELSE Num(RoundDiv((cur.v - prev.v) * 10000, prev.v))

\* value > 0, for a value that is not NaN.
Positive(value) == value.k = "inf" \/ value.v > 0
Negative(value) == value.k = "num" /\ value.v < 0

\* A faulty variant of yoy_color: zero is flagged like an increase.
yoy_color_ge(value) == IF Negative(value) THEN "red" ELSE "green"

\* 'green' if value > 0 else 'red' if value < 0 else 'black'
yoy_color(value) ==
    IF Positive(value) THEN "green" ELSE IF Negative(value) THEN "red" ELSE "black"

Td(fmt, value, color) == [ fmt |-> fmt, v |-> value, color |-> color ]

\* The cell of column col with the given value.
TableCell(col, value) ==
    IF col = "YoY Change (Mean)" /\ notna(value)
        THEN Td("pct", value, yoy_color(value))
    ELSE IF notna(value) THEN Td("2f", value, "")
    ELSE Td("-", NaN, "")

SummaryColumns ==
    << "Days", "Mean", "Median", "Std Dev", "Min", "Max", "YoY Change (Mean)" >>

\* A faulty variant of SummaryOrder: the years descend.
SummaryOrderDesc(S) == Reverse(OrderRows(S))

\* The order of the summary's rows: groupby('Year') sorts its keys.
SummaryOrder(S) == OrderRows(S)

\* summary: the frame of lines 344-348.
summary_of(frame) ==
    SummaryOrder({ [ Year |-> GroupYear(g), Key |-> 0,
                     Days |-> [k |-> "count", v |-> agg_count(g)],
                     Mean |-> agg_mean(g), Median |-> agg_median(g),
                     StdDev |-> agg_std(g), Min |-> agg_min(g),
                     Max |-> agg_max(g) ] :
                   g \in GroupBy(frame.rows, <<"Year">>) })

\* summary['YoY Change (Mean)'] from the column of the rounded means.
YoYColumn(means) ==
    [ i \in 1..Len(means) |->
        IF i = 1 THEN NaN ELSE pct_change(means[i - 1], means[i]) ]

\* The html.Tr of a row of the summary and its YoY value.
TableRow(row, yoy) ==
    [ Year |-> row.Year,
      cells |-> << TableCell(SummaryColumns[1], row.Days),
                   TableCell(SummaryColumns[2], row.Mean),
                   TableCell(SummaryColumns[3], row.Median),
                   TableCell(SummaryColumns[4], row.StdDev),
                   TableCell(SummaryColumns[5], row.Min),
                   TableCell(SummaryColumns[6], row.Max),
                   TableCell(SummaryColumns[7], yoy) >> ]

TableOf(summary, yoy) ==
    [ kind |-> "Table", text |-> "",
      header |-> <<"Year">> \o SummaryColumns,
      rows |-> [ i \in 1..Len(summary) |-> TableRow(summary[i], yoy[i]) ] ]

TableFrom(summary) == TableOf(summary, YoYColumn(Column(summary, "Mean")))

create_summary_table(frame) == TableFrom(summary_of(frame))

(***************************************************************************)
(* update_charts.                                                          *)
(***************************************************************************)
\* selected_years: None, or a list of years (its set).
NoneYears == [ none |-> TRUE, years |-> {} ]
ListOf(Y) == [ none |-> FALSE, years |-> Y ]

\* The selections a caller makes of a frame: None, and of the years of the
\* frame and the absent years, at most two years or all but at most one.
Selections(frame) ==
    LET U == YearsOf(frame) \cup AbsentYears
    IN  { NoneYears } \cup
        { ListOf(Y) : Y \in { Z \in SUBSET U :
                                 Cardinality(Z) <= 2 \/ Cardinality(U \ Z) <= 1 } }

\* A faulty variant of NotSelected: only None counts as no selection.
NotSelectedNone(sel) == sel.none

\* not selected_years
NotSelected(sel) == sel.none \/ sel.years = {}

\* A faulty variant of isin_copy: every row is kept.
isin_copy_all(frame, years) == frame

\* df[df['Year'].isin(selected_years)].copy(): a new frame.
isin_copy(frame, years) ==
    [ columns |-> frame.columns,
      rows |-> { r \in frame.rows : r.Year \in years } ]

empty_fig == Figure(<<>>, "", << "Please select at least one year" >>)

NoData == [ kind |-> "Div", text |-> "No data to display", header |-> <<>>, rows |-> <<>> ]

Unset == [ kind |-> "unset" ]

\* The builder of the main chart: the else branch takes every value that is
\* not 'overlay', 'monthly' or 'quarterly'.
MainBuilder(ct) ==
    IF ct = "overlay" THEN "create_overlay_chart"
    ELSE IF ct = "monthly" THEN "create_monthly_chart"
    ELSE IF ct = "quarterly" THEN "create_quarterly_chart"
    ELSE "create_weekly_chart"

\* The main chart: the heap after its builder, the aggregated frame and the
\* figure.  Only create_quarterly_chart writes to the frame it is given.
MainOf(heap, builder) ==
    IF builder = "create_quarterly_chart"
        THEN create_quarterly_chart(heap, "filtered_df")
    ELSE IF builder = "create_overlay_chart"
        THEN [ heap |-> heap, data |-> <<>>,
               fig |-> create_overlay_chart(heap.filtered_df) ]
    ELSE IF builder = "create_monthly_chart"
        THEN [ heap |-> heap, data |-> monthly_data_of(heap.filtered_df),
               fig |-> create_monthly_chart(heap.filtered_df) ]
    ELSE [ heap |-> heap, data |-> weekly_data_of(heap.filtered_df),
           fig |-> create_weekly_chart(heap.filtered_df) ]

\* Lines 124-131, after the main chart m was built by builder.
Returned(m, builder) ==
    [ out |-> [ main |-> m.fig,
                stats |-> create_summary_stats_chart(m.heap.filtered_df),
                vol |-> create_volatility_chart(m.heap.filtered_df),
                table |-> create_summary_table(m.heap.filtered_df),
                raised |-> "" ],
      df |-> m.heap.df,
      main_data |-> m.data,
      invoked |-> { "isin", builder, "create_summary_stats_chart",
                    "create_volatility_chart", "create_summary_table" } ]

\* update_charts(selected_years, comparison_type) with the module-level
\* frame d: what it returns (out), the module-level frame after it (df), the
\* aggregated frame of its main chart (main_data) and the functions it
\* invoked.
update_charts(d, sel, ct) ==
    IF NotSelected(sel)
    THEN [ out |-> [ main |-> empty_fig, stats |-> empty_fig, vol |-> empty_fig,
                     table |-> NoData, raised |-> "" ],
           df |-> d, main_data |-> <<>>, invoked |-> {} ]
    ELSE Returned(MainOf([ df |-> d, filtered_df |-> isin_copy(d, sel.years) ],
                         MainBuilder(ct)),
                  MainBuilder(ct))

\* One call of the callback.
Call(sel, ct) ==
    \E r \in { update_charts(df, sel, ct) } :
        /\ called' = TRUE
        /\ selected_years' = sel
        /\ comparison_type' = ct
        /\ out' = r.out
        /\ df' = r.df
        /\ main_data' = r.main_data
        /\ invoked' = r.invoked
        /\ loaded' = loaded

Init ==
    /\ df \in { load_data(c) : c \in Csvs }
    /\ loaded = df
    /\ called = FALSE
    /\ selected_years = ListOf(YearsOf(df))
    /\ comparison_type = "overlay"
    /\ out = [ main |-> Unset, stats |-> Unset, vol |-> Unset, table |-> Unset,
               raised |-> "" ]
    /\ main_data = <<>>
    /\ invoked = {}

\* The page's first request: the callback with the layout's values.
initial_call ==
    /\ ~called
    /\ Call(selected_years, comparison_type)

\* Input('year-dropdown', 'value') changes.
year_dropdown_change ==
    /\ called
    /\ \E sel \in Selections(df) : Call(sel, comparison_type)

\* Input('comparison-type', 'value') changes.
comparison_type_change ==
    /\ called
    /\ \E ct \in ComparisonTypes : Call(selected_years, ct)

Next == initial_call \/ year_dropdown_change \/ comparison_type_change

Spec == Init /\ [][Next]_vars

(***************************************************************************)
(* Properties.  What a property expects is computed from loaded and the    *)
(* arguments of the last call, not from the operators of the handler.      *)
(***************************************************************************)
\* The last call had a non-empty selection.
Selected == called /\ ~selected_years.none /\ selected_years.years # {}

Sel == selected_years.years

\* The selected years that have an observation in the loaded data.
DataYears == { y \in Sel : \E r \in loaded.rows : r.Year = y }

\* The loaded observations of year y.
Obs(y) == { r \in loaded.rows : r.Year = y }

SumOf(g) == SumSeq(PriceSeq(g))

\* The bucket of an observation, from its date.
BucketOf(r) ==
    IF comparison_type = "monthly" THEN r.Date[2]
    ELSE IF comparison_type = "quarterly" THEN ((r.Date[2] + 2) \div 3)
    ELSE r.WeekOfYear

\* The loaded observations of year y and bucket k.
BucketObs(y, k) == { r \in Obs(y) : BucketOf(r) = k }

Rows == out.table.rows

YoYCell(i) == Rows[i].cells[7]

Palette(i) == colors[(i % 9) + 1]

\* The number of selected years with data before year y.
RankInData(y) == Cardinality({ z \in DataYears : z < y })

\* The number of selected years before year y.
RankInSelection(y) == Cardinality({ z \in Sel : z < y })

\* The year's mean price rounded to 2 decimals, in cents.
RoundedMean(y) == RoundDiv(SumOf(Obs(y)), 10 * Cardinality(Obs(y)))

\* The YoY change of year y after year p from the exact means, in hundredths
\* of a percent: ((Sy/ny) - (Sp/np)) / (Sp/np) * 100, rounded once.
ExactYoY(p, y) ==
    LET sp == SumOf(Obs(p))
        np == Cardinality(Obs(p))
        sy == SumOf(Obs(y))
        ny == Cardinality(Obs(y))
    IN  IF sp = 0 THEN (IF sy = 0 THEN NaN ELSE Inf)
        ELSE Num(RoundDiv((sy * np - sp * ny) * 10000, sp * ny))

\* The YoY change of year y after year p from the means rounded to 2 decimals.
RoundedYoY(p, y) ==
    LET mp == RoundedMean(p)
        my == RoundedMean(y)
    IN  IF mp = 0 THEN (IF my = 0 THEN NaN ELSE Inf)
        ELSE Num(RoundDiv((my - mp) * 10000, mp))

Before(Y, y) == CHOOSE p \in Y : p < y /\ \A z \in Y : z < y => z <= p

\* The YoY value the table is to show for year y: undefined for the first
\* selected year with data.
ExpectedYoY(y) ==
    IF \A z \in DataYears : y <= z THEN NaN
    ELSE RoundedYoY(Before(DataYears, y), y)

\* The YoY cell shows the value e: "-" for an undefined value.
Shows(cell, e) ==
    IF e.k = "nan" THEN cell.fmt = "-" ELSE cell.fmt = "pct" /\ cell.v = e

IsPlaceholder(fig) ==
    /\ fig.kind = "Figure"
    /\ fig.data = <<>>
    /\ fig.annotations = << "Please select at least one year" >>

\* C1: a call with an empty or missing selection returns, for every
\* comparison type, the placeholder figure in the three chart slots and the
\* "no data" marker in the table slot, and invokes no filtering, aggregation
\* or chart-building function.
C1_EmptySelection ==
    (called /\ (selected_years.none \/ selected_years.years = {})) =>
        /\ IsPlaceholder(out.main)
        /\ IsPlaceholder(out.stats)
        /\ IsPlaceholder(out.vol)
        /\ out.table.kind = "Div"
        /\ out.table.text = "No data to display"
        /\ invoked = {}
        /\ main_data = <<>>

C1_Witness ==
    /\ called
    /\ ~selected_years.none
    /\ selected_years.years = {}
    /\ comparison_type = "quarterly"
    /\ out.table.kind = "Div"

\* C2: after a call with a non-empty selection, every series of the main
\* chart, every aggregate row, every bar of the two secondary charts and
\* every summary row is of a selected year, and every point of an overlay
\* series is an observation of that year.
C2_NoLeak ==
    Selected =>
        /\ \A i \in 1..Len(out.main.data) : out.main.data[i].year \in Sel
        /\ \A i \in 1..Len(main_data) : main_data[i].Year \in Sel
        /\ \A i \in 1..Len(out.stats.data) :
              \A j \in 1..Len(out.stats.data[i].x) : out.stats.data[i].x[j] \in Sel
        /\ \A i \in 1..Len(out.vol.data) :
              \A j \in 1..Len(out.vol.data[i].x) : out.vol.data[i].x[j] \in Sel
        /\ \A i \in 1..Len(Rows) : Rows[i].Year \in Sel
        /\ comparison_type = "overlay" =>
              \A i \in 1..Len(out.main.data) :
                  LET t == out.main.data[i]
                  IN  \A j \in 1..Len(t.x) :
                          \E r \in Obs(t.year) :
                              r.DayOfYear = t.x[j] /\ t.y[j] = Raw(r.Price)

C2_Witness ==
    /\ Selected
    /\ \E y \in YearsOf(loaded) : y \notin Sel
    /\ Len(out.main.data) > 0
    /\ Len(Rows) > 0

\* C3: a call with a non-empty selection and a comparison type that is none
\* of 'overlay', 'monthly', 'quarterly', 'weekly' fails with InvalidScheme.
C3_InvalidSchemeFails ==
    (Selected /\ comparison_type \notin {"overlay", "monthly", "quarterly", "weekly"}) =>
        out.raised = "InvalidScheme"

\* C4 as claimed: the YoY of the earliest selected year is undefined, and for
\* every later selected year y it is the change after the preceding selected
\* year p computed from the exact means and rounded once.
C4_YoYFromExactMeans ==
    Selected =>
        \A i \in 1..Len(Rows) :
            LET y == Rows[i].Year
            IN  IF \A z \in Sel : y <= z
                THEN YoYCell(i).fmt = "-"
                ELSE LET p == Before(Sel, y)
                     IN  /\ Obs(p) # {}
                         /\ Shows(YoYCell(i), ExactYoY(p, y))

\* C4 as amended: the YoY of the first row (the earliest selected year that
\* has observations) is undefined, and for every later row y it is
\* (m[y] - m[p]) / m[p] * 100 rounded to 2 decimals, where p is the year of
\* the preceding row and m[.] is the year's mean already rounded to 2
\* decimals; when m[p] is 0 it is +inf, or undefined when m[y] is 0 too.
C4_YoYFromRoundedMeans ==
    Selected =>
        \A i \in 1..Len(Rows) :
            LET y == Rows[i].Year
            IN  /\ y \in DataYears
                /\ IF RankInData(y) = 0
                   THEN YoYCell(i).fmt = "-"
                   ELSE Shows(YoYCell(i), RoundedYoY(Before(DataYears, y), y))

\* A later row whose value from the rounded means differs from the value from
\* the exact means.
C4_Witness ==
    /\ Selected
    /\ \E i \in 2..Len(Rows) :
          /\ YoYCell(i).fmt = "pct"
          /\ YoYCell(i).v.k = "num"
          /\ YoYCell(i).v # ExactYoY(Rows[i - 1].Year, Rows[i].Year)

\* C5: after any sequence of calls the module-level frame has the rows and
\* columns it had after load, and what the last call returned is what a call
\* with its arguments returns on the frame as loaded.
C5_Pure ==
    /\ df = loaded
    /\ df.columns = LoadedColumns
    /\ called => out = update_charts(loaded, selected_years, comparison_type).out

C5_Witness ==
    /\ Selected
    /\ comparison_type = "quarterly"
    /\ Len(main_data) > 1
    /\ df = loaded

\* C6 as claimed: the summary table has one row per selected year, in
\* ascending order of the year.
C6_RowPerSelectedYear ==
    Selected => Column(Rows, "Year") = sorted(Sel)

\* C6 as amended: the summary table has one row per selected year that has
\* at least one observation, in strictly ascending order of the year.
C6_RowPerYearWithData ==
    Selected =>
        /\ { Rows[i].Year : i \in 1..Len(Rows) } = DataYears
        /\ \A i \in 1..Len(Rows) : \A j \in 1..Len(Rows) :
              i < j => Rows[i].Year < Rows[j].Year

C6_Witness ==
    /\ Selected
    /\ Len(Rows) >= 2
    /\ Sel # DataYears

\* The last call's main chart is the monthly or the quarterly one.
MonthlyOrQuarterly == Selected /\ comparison_type \in {"monthly", "quarterly"}

\* C7 as claimed: in the monthly and quarterly schemes a group of exactly one
\* observation has a mean equal to that observation's price (quarterly:
\* min = max = mean = that price) and a null standard deviation, and a group
\* of two or more observations has a defined standard deviation.
C7_SingletonMeanIsPrice ==
    MonthlyOrQuarterly =>
        \A i \in 1..Len(main_data) :
            LET row == main_data[i]
                g == BucketObs(row.Year, row.Key)
            IN  /\ Cardinality(g) = 1 =>
                      /\ \A r \in g : row.AvgPrice.k = "num" /\ row.AvgPrice.v * 10 = r.Price
                      /\ row.StdPrice = NaN
                      /\ comparison_type = "quarterly" =>
                            row.MinPrice = row.AvgPrice /\ row.MaxPrice = row.AvgPrice
                /\ Cardinality(g) >= 2 => row.StdPrice.k = "num"

\* C7 as amended: the mean of a group of exactly one observation is that
\* observation's price rounded to 2 decimals (quarterly: min = max = mean),
\* its standard deviation is null; a group of two or more observations has a
\* defined standard deviation.
C7_SingletonMeanIsRoundedPrice ==
    MonthlyOrQuarterly =>
        \A i \in 1..Len(main_data) :
            LET row == main_data[i]
                g == BucketObs(row.Year, row.Key)
            IN  /\ g # {}
                /\ Cardinality(g) = 1 =>
                      /\ \A r \in g : row.AvgPrice = Num(RoundDiv(r.Price, 10))
                      /\ row.StdPrice = NaN
                      /\ comparison_type = "quarterly" =>
                            row.MinPrice = row.AvgPrice /\ row.MaxPrice = row.AvgPrice
                /\ Cardinality(g) >= 2 => row.StdPrice.k = "num"

\* A quarterly frame with a group of one observation whose price has a third
\* decimal, and a group of two or more.
C7_Witness ==
    /\ Selected
    /\ comparison_type = "quarterly"
    /\ \E i \in 1..Len(main_data) :
          LET g == BucketObs(main_data[i].Year, main_data[i].Key)
          IN  Cardinality(g) = 1 /\ \E r \in g : r.Price % 10 # 0
    /\ \E i \in 1..Len(main_data) :
          Cardinality(BucketObs(main_data[i].Year, main_data[i].Key)) >= 2

\* The colour a series of the main chart is to have when its year has rank n.
HasPaletteColor(t, n) ==
    IF t.label = "Range"
    THEN t.fillcolor = [fn |-> "rgba", rgb |-> Palette(n).rgb, a |-> "0.2"]
    ELSE t.color = Palette(n)

\* C8 as claimed: in every main chart the colour of a year's series is
\* palette[i mod palette length], i the position of the year in the ascending
\* list of the selected years; the quarterly range band has the index of the
\* year's average line.
C8_ColorBySelectionRank ==
    Selected =>
        \A i \in 1..Len(out.main.data) :
            HasPaletteColor(out.main.data[i], RankInSelection(out.main.data[i].year))

\* C8 as amended: i is the position of the year in the ascending list of the
\* selected years that have at least one observation.
C8_ColorByDataRank ==
    Selected =>
        \A i \in 1..Len(out.main.data) :
            HasPaletteColor(out.main.data[i], RankInData(out.main.data[i].year))

\* A quarterly chart whose tenth year takes the first colour again.
C8_Witness ==
    /\ Selected
    /\ comparison_type = "quarterly"
    /\ \E i \in 1..Len(out.main.data) :
          /\ RankInData(out.main.data[i].year) = 9
          /\ out.main.data[i].label = "Range"
          /\ out.main.data[i].fillcolor.rgb = colors[1].rgb

\* The number of buckets of a year in the last call's scheme.
BucketLimit ==
    IF comparison_type = "monthly" THEN 12
    ELSE IF comparison_type = "quarterly" THEN 4
    ELSE 53

\* C9: in the monthly, quarterly and weekly schemes the aggregate rows of a
\* year number at most 12, 4 and 53, every bucket key lies in 1..12, 1..4 and
\* 1..53, and no (year, bucket key) pair occurs in two rows.
C9_BucketCounts ==
    (Selected /\ comparison_type \in {"monthly", "quarterly", "weekly"}) =>
        /\ \A i \in 1..Len(main_data) : main_data[i].Key \in 1..BucketLimit
        /\ \A i \in 1..Len(main_data) : \A j \in 1..Len(main_data) :
              (main_data[i].Year = main_data[j].Year /\ main_data[i].Key = main_data[j].Key)
                  => i = j
        /\ \A y \in Sel :
              Cardinality({ i \in 1..Len(main_data) : main_data[i].Year = y }) <= BucketLimit

\* A weekly frame with a row of two or more observations and a row of week 53.
C9_Witness ==
    /\ Selected
    /\ comparison_type = "weekly"
    /\ \E i \in 1..Len(main_data) :
          Cardinality(BucketObs(main_data[i].Year, main_data[i].Key)) >= 2
    /\ \E i \in 1..Len(main_data) : main_data[i].Key = 53

\* C10: every row's YoY cell is rendered by the sign of its rounded YoY value:
\* undefined as "-" without a colour, positive green, negative red, zero
\* black; exactly one of the four applies.
C10_YoYCellBySign ==
    Selected =>
        \A i \in 1..Len(Rows) :
            LET c == YoYCell(i)
                e == ExpectedYoY(Rows[i].Year)
            IN  \/ e.k = "nan" /\ c.fmt = "-" /\ c.color = ""
                \/ /\ e.k = "inf" \/ (e.k = "num" /\ e.v > 0)
                   /\ c.fmt = "pct" /\ c.v = e /\ c.color = "green"
                \/ /\ e.k = "num" /\ e.v < 0
                   /\ c.fmt = "pct" /\ c.v = e /\ c.color = "red"
                \/ /\ e.k = "num" /\ e.v = 0
                   /\ c.fmt = "pct" /\ c.v = e /\ c.color = "black"

\* A table that shows all four cases.
C10_Witness ==
    /\ Selected
    /\ \E i \in 1..Len(Rows) : YoYCell(i).fmt = "-"
    /\ \E i \in 1..Len(Rows) : YoYCell(i).color = "green"
    /\ \E i \in 1..Len(Rows) : YoYCell(i).color = "red"
    /\ \E i \in 1..Len(Rows) : YoYCell(i).color = "black"

====
